---- MODULE Spec2Model ----
(***************************************************************************)
(* Model of the two export scripts of the Biome repository:                *)
(*   scripts/export_geodatabase.py  (zonal statistics exporter, "stats")   *)
(*   scripts/export_landcover.py    (land-cover exporter, "landcover")     *)
(* One behaviour is one run of one of the two scripts against a            *)
(* geodatabase whose table list is fixed at start and whose table contents *)
(* are read, table by table, as the run proceeds.                          *)
(***************************************************************************)
EXTENDS Integers, Sequences, FiniteSets, TLC

(***************************************************************************)
(* Bounds of the model.                                                    *)
(***************************************************************************)
\* Largest number of tables listed by the geodatabase.
MaxTables == 2
\* Largest number of source rows read in one run (over all tables).
MaxRows == 2

(***************************************************************************)
(* Python values: None, integers and strings, tagged so that values of     *)
(* different types can be compared.                                        *)
(***************************************************************************)
None == [t |-> "null", v |-> 0]
IntV(i) == [t |-> "int", v |-> i]
StrV(s) == [t |-> "str", v |-> s]

\* Python truthiness of a value (`if h3_index:`, `if majority`).
Truthy(x) ==
    CASE x.t = "null" -> FALSE
      [] x.t = "int" -> x.v # 0
      [] x.t = "str" -> x.v # ""

\* Python int() of an integer value.
PyInt(x) == x.v

(***************************************************************************)
(* Table names.  A name is a sequence of tokens; a digit is a token of its *)
(* own, so that the regular expression and the glob patterns are matched   *)
(* on the name and int() is computed from the digits.                      *)
(***************************************************************************)
Digits == {"0", "1", "2", "3", "4", "5", "6", "7", "8", "9"}

DigitVal(d) ==
    CASE d = "0" -> 0 [] d = "1" -> 1 [] d = "2" -> 2 [] d = "3" -> 3
      [] d = "4" -> 4 [] d = "5" -> 5 [] d = "6" -> 6 [] d = "7" -> 7
      [] d = "8" -> 8 [] d = "9" -> 9

\* int() of a string of decimal digits ("001" -> 1).
RECURSIVE DigitsToInt(_)
DigitsToInt(ds) ==
    IF ds = <<>> THEN 0
    ELSE 10 * DigitsToInt(SubSeq(ds, 1, Len(ds) - 1)) + DigitVal(ds[Len(ds)])

\* Length of the longest run of digits of s that starts at position i.
RECURSIVE DigitRun(_, _)
DigitRun(s, i) ==
    IF i <= Len(s) /\ s[i] \in Digits THEN 1 + DigitRun(s, i + 1) ELSE 0

StartsWith(s, p) == Len(s) >= Len(p) /\ SubSeq(s, 1, Len(p)) = p

Tail2(s, n) == SubSeq(s, n + 1, Len(s))

\* TABLE_PATTERN = r"ZStatsTable_h3_res(\d+)_part(\d+)", split at its groups.
PatternHead == <<"ZStatsTable", "_", "h3", "_", "res">>
PatternMid == <<"_", "part">>

\* re.match(TABLE_PATTERN, name): anchored at the start of the name only.
\* Returns [ok, resolution, part] with the groups converted by int().
re_match(name) ==
    IF ~StartsWith(name, PatternHead) THEN [ok |-> FALSE, resolution |-> 0, part |-> 0]
    ELSE LET a == Len(PatternHead) + 1
             n1 == DigitRun(name, a)
             rest == Tail2(name, Len(PatternHead) + n1)
             n2 == DigitRun(rest, Len(PatternMid) + 1)
         IN  IF n1 >= 1 /\ StartsWith(rest, PatternMid) /\ n2 >= 1
             THEN [ok |-> TRUE,
                   resolution |-> DigitsToInt(SubSeq(name, a, a + n1 - 1)),
                   part |-> DigitsToInt(SubSeq(rest, Len(PatternMid) + 1,
                                               Len(PatternMid) + n2))]
             ELSE [ok |-> FALSE, resolution |-> 0, part |-> 0]

\* fnmatch.fnmatch(name, pattern) / the arcpy wild card: "*" matches any run
\* of tokens, every other token matches itself; the whole name must match.
RECURSIVE fnmatch(_, _)
fnmatch(name, pat) ==
    IF pat = <<>> THEN name = <<>>
    ELSE IF Head(pat) = "*"
         THEN fnmatch(name, Tail(pat)) \/ (name # <<>> /\ fnmatch(Tail(name), pat))
         ELSE name # <<>> /\ Head(name) = Head(pat) /\ fnmatch(Tail(name), Tail(pat))

\* The tables the geodatabase may hold when the statistics exporter runs, in
\* the order it lists them: parts of resolution 5 whose numbers differ only
\* in leading zeros or that carry a suffix, a second part, tables of
\* resolutions 3 and 6, and a table the pattern does not match.
StatsTables ==
    << <<"ZStatsTable", "_", "h3", "_", "res", "5", "_", "part", "0", "0", "1">>,
       <<"ZStatsTable", "_", "h3", "_", "res", "5", "_", "part", "1">>,
       <<"ZStatsTable", "_", "h3", "_", "res", "5", "_", "part", "0", "0", "2">>,
       <<"ZStatsTable", "_", "h3", "_", "res", "5", "_", "part", "0", "0", "1", "_", "old">>,
       <<"ZStatsTable", "_", "h3", "_", "res", "3", "_", "part", "0", "1">>,
       <<"ZStatsTable", "_", "h3", "_", "res", "6", "_", "part", "0", "0", "1">>,
       <<"ZStatsAsTable", "_", "h3", "_", "res", "3", "_", "part", "0", "1">> >>

\* The tables the geodatabase may hold when the land-cover exporter runs:
\* tables of the three exported resolutions and a table no pattern matches.
LandcoverTables ==
    << <<"ZStatsAsTable", "_", "h3", "_", "res", "3", "_", "part", "0", "1">>,
       <<"ZStatsTable", "_", "h3", "_", "res", "5", "_", "part", "0", "0", "1">>,
       <<"ZStatsTable", "_", "h3", "_", "res", "5", "_", "part", "0", "0", "2">>,
       <<"ZStatsAsTable", "_", "Out", "_", "h3", "_", "res", "7", "_", "chunk", "_", "1">>,
       <<"ZStatsTable", "_", "h3", "_", "res", "3", "_", "part", "0", "1">> >>

\* The table lists of at most n of the given tables.
Listings(names, n) ==
    LET pick(I) == LET In(t) == \E i \in I : names[i] = t
                   IN  SelectSeq(names, In)
    IN  {pick(I) : I \in {J \in SUBSET (1..Len(names)) : Cardinality(J) <= n}}

Range(s) == {s[i] : i \in 1..Len(s)}

(***************************************************************************)
(* Source rows.  A table has a set of fields; a row maps each field of its *)
(* table to a value.                                                       *)
(***************************************************************************)
AllFields == {"OBJECTID", "h3_index", "ZONE_CODE", "COUNT", "AREA", "MAJORITY"}

\* The field sets a source table may have.
FieldChoices == {AllFields, AllFields \ {"AREA"}, AllFields \ {"h3_index"}}

\* The h3_index values of a source row: null, empty, a cell identifier.
H3Vals == {None, StrV(""), StrV("85283473fffffff")}

\* The h3_index and MAJORITY values of the rows the statistics exporter
\* reads: it copies both without testing them.
StatsH3Vals == {None, StrV("85283473fffffff")}

StatsMajorityVals == {IntV(111)}

\* The MAJORITY values of a source row: null, zero, class-table codes, an
\* integer the class table does not hold, a negative integer.
MajorityVals == {None, IntV(0), IntV(111), IntV(999), IntV(-3)}

SourceRow(fields, h3, majority) ==
    [f \in fields |->
        CASE f = "h3_index" -> h3
          [] f = "MAJORITY" -> majority
          [] f = "OBJECTID" -> IntV(1)
          [] f = "ZONE_CODE" -> IntV(42)
          [] f = "COUNT" -> IntV(7)
          [] f = "AREA" -> IntV(630)]

\* The sequences of at most n elements of S.
RECURSIVE SeqsUpTo(_, _)
SeqsUpTo(S, n) ==
    IF n = 0 THEN {<<>>}
    ELSE LET shorter == SeqsUpTo(S, n - 1)
         IN  shorter \cup
             { Append(l, x) : l \in {y \in shorter : Len(y) = n - 1}, x \in S }

\* The contents a table with the given fields may have: at most n rows.
TableRows(fields, h3s, majorities, n) ==
    SeqsUpTo({SourceRow(fields, h, m) : h \in h3s, m \in majorities}, n)

(***************************************************************************)
(* State.                                                                  *)
(***************************************************************************)
VARIABLES
    prog,            \* the script that runs: "stats" or "landcover"
    arcpyAvail,      \* `import arcpy` succeeds
    fionaAvail,      \* `import fiona` and pandas / geopandas succeed
    argsGiven,       \* landcover: len(sys.argv) >= 3
    gdb,             \* the table names the geodatabase lists, in order
    pc,              \* position of the run
    exitStatus,      \* -1 while running, then the process exit status
    called,          \* the backends whose operations the run has called
    USE_ARCPY,       \* landcover: the module-level flag
    dirs,            \* stats: the N for which OUTPUT_DIR/resN exists
    by_resolution,   \* stats: the groups still to export, sorted
    resolution,      \* the resolution of the group being exported
    tables_list,     \* the tables of the group still to read
    all_records,     \* the records accumulated for the group
    all_dfs,         \* stats/fiona: the data frames accumulated for the group
    origin,          \* history: the source table of each accumulated record
    raw,             \* history: the source MAJORITY of each accumulated record
    rowsRead,        \* number of source rows read so far
    group,           \* landcover: index of the export_resolution call in main
    csvFiles,        \* stats: N -> lines of zonal_stats_resN.csv
    jsonFiles,       \* stats: N -> records of zonal_stats_resN.json
    csvOrigin,       \* history: N -> source table of each row of the CSV
    jsonlFiles,      \* landcover: N -> lines of landcover_resN.jsonl
    jsonlRaw,        \* history: N -> source MAJORITY of each line
    summaryFiles,    \* landcover: N -> landcover_resN_summary.json
    biomeColors,     \* landcover: biome_colors.json is written
    manifest,        \* stats: the "resolutions" object of manifest.json
    manifestWritten, \* stats: manifest.json is written
    guidance,        \* stats: the failure guidance is printed
    skipped,         \* history: landcover groups that matched no table
    failed           \* history: the groups whose export raised an error

vars == <<prog, arcpyAvail, fionaAvail, argsGiven, gdb, pc, exitStatus, called,
          USE_ARCPY, dirs, by_resolution, resolution, tables_list, all_records,
          all_dfs, origin, raw, rowsRead, group, csvFiles, jsonFiles, csvOrigin,
          jsonlFiles, jsonlRaw, summaryFiles, biomeColors, manifest,
          manifestWritten, guidance, skipped, failed>>

env == <<prog, arcpyAvail, fionaAvail, argsGiven, gdb>>

\* The empty mapping (no file, no manifest entry).
Empty == [x \in {} |-> 0]

Init ==
    /\ prog \in {"stats", "landcover"}
    /\ arcpyAvail \in BOOLEAN
    /\ fionaAvail \in BOOLEAN
    /\ argsGiven \in (IF prog = "landcover" THEN BOOLEAN ELSE {FALSE})
    /\ gdb \in Listings(IF prog = "stats" THEN StatsTables ELSE LandcoverTables,
                         MaxTables)
    /\ pc = "start"
    /\ exitStatus = -1
    /\ called = {}
    /\ USE_ARCPY = FALSE
    /\ dirs = {}
    /\ by_resolution = <<>>
    /\ resolution = 0
    /\ tables_list = <<>>
    /\ all_records = <<>>
    /\ all_dfs = <<>>
    /\ origin = <<>>
    /\ raw = <<>>
    /\ rowsRead = 0
    /\ group = 0
    /\ csvFiles = Empty
    /\ jsonFiles = Empty
    /\ csvOrigin = Empty
    /\ jsonlFiles = Empty
    /\ jsonlRaw = Empty
    /\ summaryFiles = Empty
    /\ biomeColors = FALSE
    /\ manifest = Empty
    /\ manifestWritten = FALSE
    /\ guidance = FALSE
    /\ skipped = {}
    /\ failed = {}

\* Raise, were the error caught and the run ended as if it had succeeded.
Raise_caught ==
    /\ pc' = "done"
    /\ exitStatus' = 0

\* An uncaught exception: the traceback is printed and the process exits 1.
Raise ==
    /\ pc' = "crashed"
    /\ exitStatus' = 1

(***************************************************************************)
(* scripts/export_geodatabase.py                                           *)
(***************************************************************************)
\* The declared CSV columns, in the declared order.
fieldnames == <<"h3_index", "zone_code", "count", "area", "majority", "source_part">>

\* setup_output_dirs: `for res in range(5, 10)`.
setup_output_dirs == 5..9

\* f"part{part}": the provenance tag, the string made of the word "part" and
\* the decimal form of the parsed number (two tags are the same string
\* exactly when the numbers are equal).
source_part(part) == [t |-> "part", v |-> part]

\* zstats_tables: the (table, resolution, part) of the listed names that
\* match TABLE_PATTERN, in listing order.
RECURSIVE zstats_tables(_)
zstats_tables(listing) ==
    IF listing = <<>> THEN <<>>
    ELSE LET m == re_match(Head(listing))
         IN  (IF m.ok
              THEN <<[table |-> Head(listing), resolution |-> m.resolution,
                      part |-> m.part]>>
              ELSE <<>>) \o zstats_tables(Tail(listing))

\* sorted(tables_list, key=lambda x: x[1]): a stable sort by part.
RECURSIVE sorted_by_part(_)
sorted_by_part(s) ==
    IF s = <<>> THEN <<>>
    ELSE LET init == sorted_by_part(SubSeq(s, 1, Len(s) - 1))
             x == s[Len(s)]
             k == Cardinality({i \in 1..Len(init) : init[i].part <= x.part})
         IN  SubSeq(init, 1, k) \o <<x>> \o SubSeq(init, k + 1, Len(init))

RECURSIVE sorted_set(_)
sorted_set(S) ==
    IF S = {} THEN <<>>
    ELSE LET m == CHOOSE x \in S : \A y \in S : x <= y
         IN  <<m>> \o sorted_set(S \ {m})

Select(s, r) ==
    LET Test(x) == x.resolution = r IN SelectSeq(s, Test)

\* sorted(by_resolution.items()): the groups by ascending resolution, each
\* with its tables in listing order.
grouped(listing) ==
    LET z == zstats_tables(listing)
        rs == sorted_set({z[i].resolution : i \in 1..Len(z)})
    IN  [i \in 1..Len(rs) |-> [resolution |-> rs[i], tables |-> Select(z, rs[i])]]

\* The record export_with_arcpy builds from a row of a table.
arcpy_record(fields, row, part) ==
    [h3_index |-> IF "h3_index" \in fields THEN row["h3_index"] ELSE None,
     zone_code |-> IF "ZONE_CODE" \in fields THEN row["ZONE_CODE"] ELSE None,
     count |-> IF "COUNT" \in fields THEN row["COUNT"] ELSE None,
     area |-> IF "AREA" \in fields THEN row["AREA"] ELSE None,
     majority |-> IF "MAJORITY" \in fields THEN row["MAJORITY"] ELSE None,
     source_part |-> source_part(part)]

\* A cell as the CSV writers write it: None (NaN) is the empty string.
csv_cell(v) == IF v.t = "null" THEN StrV("") ELSE v

\* The lines of a CSV file: the header, then one line per record.
csv_lines(header, records) ==
    <<[i \in 1..Len(header) |-> StrV(header[i])]>> \o
    [k \in 1..Len(records) |->
        [i \in 1..Len(header) |-> csv_cell(records[k][header[i]])]]

\* csv.DictWriter(f, fieldnames=[...]); writeheader(); writerows(all_records).
arcpy_csv(records) == csv_lines(fieldnames, records)

\* main, up to the call of export_with_arcpy.
main_setup ==
    /\ prog = "stats" /\ pc = "start"
    /\ dirs' = dirs \cup setup_output_dirs
    /\ pc' = "arcpy"
    /\ UNCHANGED <<env, exitStatus, called, USE_ARCPY, by_resolution, resolution,
                   tables_list, all_records, all_dfs, origin, raw, rowsRead,
                   group, csvFiles, jsonFiles, csvOrigin, jsonlFiles, jsonlRaw,
                   summaryFiles, biomeColors, manifest, manifestWritten,
                   guidance, skipped, failed>>

\* export_with_arcpy, up to the loop over the resolutions: the import, the
\* table listing, the filter and the grouping.  A False result sends main to
\* the fiona fallback.
export_with_arcpy ==
    /\ prog = "stats" /\ pc = "arcpy"
    /\ IF ~arcpyAvail
       THEN /\ pc' = "fiona"
            /\ UNCHANGED <<called, by_resolution>>
       ELSE /\ called' = called \cup {"arcpy"}
            /\ IF gdb = <<>>
               THEN pc' = "fiona" /\ UNCHANGED by_resolution
               ELSE pc' = "arcpy_loop" /\ by_resolution' = grouped(gdb)
    /\ UNCHANGED <<env, exitStatus, USE_ARCPY, dirs, resolution, tables_list,
                   all_records, all_dfs, origin, raw, rowsRead, group, csvFiles,
                   jsonFiles, csvOrigin, jsonlFiles, jsonlRaw, summaryFiles,
                   biomeColors, manifest, manifestWritten, guidance, skipped,
                   failed>>

\* Head of `for resolution, tables_list in sorted(by_resolution.items())`,
\* of either backend: the next group, or the return of True.
next_group(loop, read) ==
    /\ prog = "stats" /\ pc = loop
    /\ IF by_resolution = <<>>
       THEN /\ pc' = "manifest"
            /\ UNCHANGED <<by_resolution, resolution, tables_list, all_records,
                           all_dfs, origin>>
       ELSE /\ resolution' = Head(by_resolution).resolution
            /\ tables_list' = sorted_by_part(Head(by_resolution).tables)
            /\ by_resolution' = Tail(by_resolution)
            /\ all_records' = <<>>
            /\ all_dfs' = <<>>
            /\ origin' = <<>>
            /\ pc' = read
    /\ UNCHANGED <<env, exitStatus, called, USE_ARCPY, dirs, raw, rowsRead, group,
                   csvFiles, jsonFiles, csvOrigin, jsonlFiles, jsonlRaw,
                   summaryFiles, biomeColors, manifest, manifestWritten,
                   guidance, skipped, failed>>

arcpy_next_group == next_group("arcpy_loop", "arcpy_read")

\* One pass of `for table_name, part in sorted(tables_list, ...)`: the fields
\* of the table, then its rows through a SearchCursor, or an error raised by
\* the read.
arcpy_read_table ==
    /\ prog = "stats" /\ pc = "arcpy_read" /\ tables_list # <<>>
    /\ \/ /\ Raise
          /\ failed' = failed \cup {resolution}
          /\ UNCHANGED <<tables_list, all_records, origin, rowsRead>>
       \/ \E fields \in FieldChoices :
          \E rows \in TableRows(fields, StatsH3Vals, StatsMajorityVals,
                                    MaxRows - rowsRead) :
             LET t == Head(tables_list)
             IN  /\ all_records' = all_records \o
                       [i \in 1..Len(rows) |-> arcpy_record(fields, rows[i], t.part)]
                 /\ origin' = origin \o [i \in 1..Len(rows) |-> t.table]
                 /\ rowsRead' = rowsRead + Len(rows)
                 /\ tables_list' = Tail(tables_list)
                 /\ UNCHANGED <<pc, exitStatus, failed>>
    /\ UNCHANGED <<env, called, USE_ARCPY, dirs, by_resolution, resolution,
                   all_dfs, raw, group, csvFiles, jsonFiles, csvOrigin,
                   jsonlFiles, jsonlRaw, summaryFiles, biomeColors, manifest,
                   manifestWritten, guidance, skipped>>

\* The writes that end a group, of either backend: the CSV file, then the
\* JSON file.  open() raises when the directory resN does not exist; either
\* write may raise for want of space or permission.
write_group(read, loop, lines, records) ==
    /\ prog = "stats" /\ pc = read /\ tables_list = <<>>
    /\ IF resolution \notin dirs
       THEN /\ Raise
            /\ failed' = failed \cup {resolution}
            /\ UNCHANGED <<csvFiles, csvOrigin, jsonFiles>>
       ELSE \/ /\ Raise
               /\ failed' = failed \cup {resolution}
               /\ UNCHANGED <<csvFiles, csvOrigin, jsonFiles>>
            \/ /\ csvFiles' = (resolution :> lines) @@ csvFiles
               /\ csvOrigin' = (resolution :> origin) @@ csvOrigin
               /\ \/ /\ Raise
                     /\ failed' = failed \cup {resolution}
                     /\ UNCHANGED jsonFiles
                  \/ /\ jsonFiles' = (resolution :> records) @@ jsonFiles
                     /\ pc' = loop
                     /\ UNCHANGED <<exitStatus, failed>>
    /\ UNCHANGED <<env, called, USE_ARCPY, dirs, by_resolution, resolution,
                   tables_list, all_records, all_dfs, origin, raw, rowsRead,
                   group, jsonlFiles, jsonlRaw, summaryFiles, biomeColors,
                   manifest, manifestWritten, guidance, skipped>>

arcpy_write_group ==
    write_group("arcpy_read", "arcpy_loop", arcpy_csv(all_records), all_records)

\* export_with_fiona, up to the loop over the resolutions: the imports, the
\* layer listing, the filter and the grouping.  A False result sends main to
\* the failure guidance.
export_with_fiona ==
    /\ prog = "stats" /\ pc = "fiona"
    /\ IF ~fionaAvail
       THEN /\ pc' = "failed"
            /\ UNCHANGED <<called, by_resolution>>
       ELSE /\ called' = called \cup {"fiona"}
            /\ pc' = "fiona_loop"
            /\ by_resolution' = grouped(gdb)
    /\ UNCHANGED <<env, exitStatus, USE_ARCPY, dirs, resolution, tables_list,
                   all_records, all_dfs, origin, raw, rowsRead, group, csvFiles,
                   jsonFiles, csvOrigin, jsonlFiles, jsonlRaw, summaryFiles,
                   biomeColors, manifest, manifestWritten, guidance, skipped,
                   failed>>

fiona_next_group == next_group("fiona_loop", "fiona_read")

\* pd.DataFrame(records); df['source_part'] = f"part{part}": a frame is its
\* set of columns and its rows.  A frame built from no record has no column
\* but the one assigned.
DataFrame(fields, rows, part) ==
    LET cols == (IF rows = <<>> THEN {} ELSE fields) \cup {"source_part"}
    IN  [columns |-> cols,
         rows |-> [i \in 1..Len(rows) |->
                     [c \in cols |-> IF c = "source_part" THEN source_part(part)
                                     ELSE rows[i][c]]]]

\* pd.concat(all_dfs, ignore_index=True): the union of the columns, a value
\* missing from a frame being NaN.
RECURSIVE concat(_)
concat(dfs) ==
    IF dfs = <<>> THEN [columns |-> {}, rows |-> <<>>]
    ELSE LET init == concat(SubSeq(dfs, 1, Len(dfs) - 1))
             df == dfs[Len(dfs)]
             cols == init.columns \cup df.columns
             widen(r) == [c \in cols |-> IF c \in DOMAIN r THEN r[c] ELSE None]
         IN  [columns |-> cols,
              rows |-> [i \in 1..Len(init.rows) |-> widen(init.rows[i])] \o
                       [i \in 1..Len(df.rows) |-> widen(df.rows[i])]]

\* The columns= mapping of combined.rename.
renamed(c) ==
    CASE c = "ZONE_CODE" -> "zone_code"
      [] c = "COUNT" -> "count"
      [] c = "AREA" -> "area"
      [] c = "MAJORITY" -> "majority"
      [] OTHER -> c

rename(df) ==
    LET back(c) == CHOOSE o \in df.columns : renamed(o) = c
        cols == {renamed(c) : c \in df.columns}
    IN  [columns |-> cols,
         rows |-> [i \in 1..Len(df.rows) |-> [c \in cols |-> df.rows[i][back(c)]]]]

\* [c for c in columns if c in combined.columns]
present_columns(df) ==
    LET Test(c) == c \in df.columns IN SelectSeq(fieldnames, Test)

\* The frame export_with_fiona writes: the parts combined, renamed and cut to
\* the declared columns that are present.
combined(dfs) == rename(concat(dfs))

\* combined.to_csv(output_file, index=False)
fiona_csv(dfs) == csv_lines(present_columns(combined(dfs)), combined(dfs).rows)

\* combined.to_json(json_file, orient='records')
fiona_json(dfs) ==
    LET df == combined(dfs)
        cols == present_columns(df)
    IN  [k \in 1..Len(df.rows) |-> [c \in Range(cols) |-> df.rows[k][c]]]

\* One pass of `for layer_name, part in sorted(layers_list, ...)`: the layer
\* is opened and read whole into a frame, or the read raises.
fiona_read_table ==
    /\ prog = "stats" /\ pc = "fiona_read" /\ tables_list # <<>>
    /\ \/ /\ Raise
          /\ failed' = failed \cup {resolution}
          /\ UNCHANGED <<tables_list, all_dfs, origin, rowsRead>>
       \/ \E fields \in FieldChoices :
          \E rows \in TableRows(fields, StatsH3Vals, StatsMajorityVals,
                                    MaxRows - rowsRead) :
             LET t == Head(tables_list)
             IN  /\ all_dfs' = Append(all_dfs, DataFrame(fields, rows, t.part))
                 /\ origin' = origin \o [i \in 1..Len(rows) |-> t.table]
                 /\ rowsRead' = rowsRead + Len(rows)
                 /\ tables_list' = Tail(tables_list)
                 /\ UNCHANGED <<pc, exitStatus, failed>>
    /\ UNCHANGED <<env, called, USE_ARCPY, dirs, by_resolution, resolution,
                   all_records, raw, group, csvFiles, jsonFiles, csvOrigin,
                   jsonlFiles, jsonlRaw, summaryFiles, biomeColors, manifest,
                   manifestWritten, guidance, skipped>>

fiona_write_group ==
    write_group("fiona_read", "fiona_loop", fiona_csv(all_dfs), fiona_json(all_dfs))

\* record_count, were the header line not subtracted.
record_count_with_header(lines) == Len(lines)

\* `sum(1 for _ in f) - 1`: the lines of the CSV file, minus the header.
record_count(lines) == Len(lines) - 1

\* The "resolutions" object generate_manifest builds: an entry for every
\* directory resN that holds zonal_stats_resN.csv.
manifest_resolutions ==
    [res \in {d \in dirs : d \in DOMAIN csvFiles} |->
        [csv_file |-> <<"csv", res>>,
         json_file |-> <<"json", res>>,
         record_count |-> record_count(csvFiles[res])]]

\* generate_manifest and the summary main prints after it; the write of
\* manifest.json may raise.
generate_manifest ==
    /\ prog = "stats" /\ pc = "manifest"
    /\ \/ /\ Raise
          /\ UNCHANGED <<manifest, manifestWritten>>
       \/ /\ manifest' = manifest_resolutions
          /\ manifestWritten' = TRUE
          /\ pc' = "done"
          /\ exitStatus' = 0
    /\ UNCHANGED <<env, called, USE_ARCPY, dirs, by_resolution, resolution,
                   tables_list, all_records, all_dfs, origin, raw, rowsRead,
                   group, csvFiles, jsonFiles, csvOrigin, jsonlFiles, jsonlRaw,
                   summaryFiles, biomeColors, guidance, skipped, failed>>

\* The else branch of main: both exports returned False; the guidance is
\* printed and main returns.
main_failed ==
    /\ prog = "stats" /\ pc = "failed"
    /\ guidance' = TRUE
    /\ pc' = "done"
    /\ exitStatus' = 0
    /\ UNCHANGED <<env, called, USE_ARCPY, dirs, by_resolution, resolution,
                   tables_list, all_records, all_dfs, origin, raw, rowsRead,
                   group, csvFiles, jsonFiles, csvOrigin, jsonlFiles, jsonlRaw,
                   summaryFiles, biomeColors, manifest, manifestWritten,
                   skipped, failed>>

(***************************************************************************)
(* scripts/export_landcover.py                                             *)
(***************************************************************************)
Class(n, c, b) == [name |-> n, color |-> c, biome |-> b]

\* The Copernicus land-cover class table.
LANDCOVER_CLASSES ==
    (0 :> Class("unknown", "#808080", "unknown")) @@
    (20 :> Class("shrubs", "#ccb35c", "shrubland")) @@
    (30 :> Class("herbaceous", "#b8e05c", "grassland")) @@
    (40 :> Class("cultivated", "#e9d35f", "agricultural")) @@
    (50 :> Class("urban", "#e60000", "urban")) @@
    (60 :> Class("bare_sparse", "#c4b79f", "desert")) @@
    (70 :> Class("snow_ice", "#f0f0f0", "polar")) @@
    (80 :> Class("water", "#0064c8", "freshwater")) @@
    (90 :> Class("wetland", "#009696", "wetland")) @@
    (100 :> Class("moss_lichen", "#7dd67d", "tundra")) @@
    (111 :> Class("forest_evergreen_needle", "#006400", "forest")) @@
    (112 :> Class("forest_evergreen_broad", "#00a000", "forest")) @@
    (113 :> Class("forest_deciduous_needle", "#aac800", "forest")) @@
    (114 :> Class("forest_deciduous_broad", "#68c800", "forest")) @@
    (115 :> Class("forest_mixed", "#00c800", "forest")) @@
    (116 :> Class("forest_unknown", "#32c832", "forest")) @@
    (121 :> Class("forest_open_evergreen_needle", "#88a000", "woodland")) @@
    (122 :> Class("forest_open_evergreen_broad", "#78c800", "woodland")) @@
    (123 :> Class("forest_open_deciduous_needle", "#a0c000", "woodland")) @@
    (124 :> Class("forest_open_deciduous_broad", "#90c800", "woodland")) @@
    (125 :> Class("forest_open_mixed", "#78c864", "woodland")) @@
    (126 :> Class("forest_open_unknown", "#6bc864", "woodland")) @@
    (200 :> Class("ocean", "#000080", "ocean"))

\* `int(majority) if majority else 0`
majority_code(majority) == IF Truthy(majority) THEN PyInt(majority) ELSE 0

\* get_biome_info, were the default of the lookup the first forest class.
get_biome_info_wrong_default(majority) ==
    LET code == majority_code(majority)
    IN  IF code \in DOMAIN LANDCOVER_CLASSES THEN LANDCOVER_CLASSES[code]
        ELSE LANDCOVER_CLASSES[111]

\* get_biome_info: LANDCOVER_CLASSES.get(code, LANDCOVER_CLASSES[0]).
get_biome_info(majority) ==
    LET code == majority_code(majority)
    IN  IF code \in DOMAIN LANDCOVER_CLASSES THEN LANDCOVER_CLASSES[code]
        ELSE LANDCOVER_CLASSES[0]

\* The record both export_table functions append for a row.
landcover_record(h3_index, majority) ==
    [h3 |-> h3_index,
     code |-> majority_code(majority),
     biome |-> get_biome_info(majority).biome]

\* `if h3_index:` over the rows of a table: the rows that yield a record.
RECURSIVE kept_rows(_)
kept_rows(rows) ==
    IF rows = <<>> THEN <<>>
    ELSE (IF Truthy(Head(rows).h3_index) THEN <<Head(rows)>> ELSE <<>>) \o
         kept_rows(Tail(rows))

\* row.get(column): None when the frame has no such column.
row_get(fields, row, f) == IF f \in fields THEN row[f] ELSE None

\* The (h3_index, MAJORITY) pairs a backend hands to the loop body.
pairs(fields, rows) ==
    [i \in 1..Len(rows) |->
        [h3_index |-> row_get(fields, rows[i], "h3_index"),
         MAJORITY |-> row_get(fields, rows[i], "MAJORITY")]]

\* The records of one table (export_table_arcpy, export_table_geopandas).
export_table(fields, rows) ==
    LET k == kept_rows(pairs(fields, rows))
    IN  [i \in 1..Len(k) |-> landcover_record(k[i].h3_index, k[i].MAJORITY)]

\* { info["biome"]: info["color"] for info in LANDCOVER_CLASSES.values() }:
\* for a biome of several classes the last class, in table order, wins.
biome_colors ==
    LET biomes == {LANDCOVER_CLASSES[c].biome : c \in DOMAIN LANDCOVER_CLASSES}
        last(b) == CHOOSE c \in DOMAIN LANDCOVER_CLASSES :
                      /\ LANDCOVER_CLASSES[c].biome = b
                      /\ \A d \in DOMAIN LANDCOVER_CLASSES :
                            LANDCOVER_CLASSES[d].biome = b => d <= c
    IN  [b \in biomes |-> LANDCOVER_CLASSES[last(b)].color]

\* The export_resolution calls of main, in order.
resolution_patterns ==
    << [resolution |-> 3,
        pattern |-> <<"ZStatsAsTable", "_", "h3", "_", "res", "3", "_", "part", "*">>],
       [resolution |-> 5,
        pattern |-> <<"ZStatsTable", "_", "h3", "_", "res", "5", "_", "part", "*">>],
       [resolution |-> 7,
        pattern |-> <<"*", "h3", "_", "res", "7", "_", "chunk", "*">>] >>

\* no_tables, were the early return of export_resolution missing.
no_tables_never(tables) == FALSE

\* `if not tables:` in export_resolution.
no_tables(tables) == tables = <<>>

\* find_tables: the listed names that match the pattern, in listing order.
find_tables(listing, pattern) ==
    LET Test(n) == fnmatch(n, pattern) IN SelectSeq(listing, Test)

\* import_block, were the sys.exit(1) of the inner except missing.
import_block_no_exit ==
    /\ prog = "landcover" /\ pc = "start"
    /\ USE_ARCPY' = arcpyAvail
    /\ pc' = "main"
    /\ UNCHANGED <<env, exitStatus, called, dirs, by_resolution, resolution,
                   tables_list, all_records, all_dfs, origin, raw, rowsRead,
                   group, csvFiles, jsonFiles, csvOrigin, jsonlFiles, jsonlRaw,
                   summaryFiles, biomeColors, manifest, manifestWritten,
                   guidance, skipped, failed>>

\* The module-level import block: arcpy first, geopandas and fiona next,
\* sys.exit(1) when neither imports.
import_block ==
    /\ prog = "landcover" /\ pc = "start"
    /\ IF arcpyAvail
       THEN USE_ARCPY' = TRUE /\ pc' = "main" /\ UNCHANGED exitStatus
       ELSE /\ USE_ARCPY' = FALSE
            /\ IF fionaAvail
               THEN pc' = "main" /\ UNCHANGED exitStatus
               ELSE pc' = "done" /\ exitStatus' = 1
    /\ UNCHANGED <<env, called, dirs, by_resolution, resolution, tables_list,
                   all_records, all_dfs, origin, raw, rowsRead, group, csvFiles,
                   jsonFiles, csvOrigin, jsonlFiles, jsonlRaw, summaryFiles,
                   biomeColors, manifest, manifestWritten, guidance, skipped,
                   failed>>

\* main, up to the first export_resolution call: the usage check and the
\* creation of the output directory.
main_args ==
    /\ prog = "landcover" /\ pc = "main"
    /\ IF argsGiven
       THEN pc' = "export" /\ group' = 1 /\ UNCHANGED exitStatus
       ELSE pc' = "done" /\ exitStatus' = 1 /\ UNCHANGED group
    /\ UNCHANGED <<env, called, USE_ARCPY, dirs, by_resolution, resolution,
                   tables_list, all_records, all_dfs, origin, raw, rowsRead,
                   csvFiles, jsonFiles, csvOrigin, jsonlFiles, jsonlRaw,
                   summaryFiles, biomeColors, manifest, manifestWritten,
                   guidance, skipped, failed>>

\* export_resolution, up to the loop over the tables: find_tables through
\* the backend USE_ARCPY selects, and the return when no table is found.
export_resolution ==
    /\ prog = "landcover" /\ pc = "export" /\ group <= Len(resolution_patterns)
    /\ LET g == resolution_patterns[group]
           tables == find_tables(gdb, g.pattern)
       IN  /\ called' = called \cup {IF USE_ARCPY THEN "arcpy" ELSE "fiona"}
           /\ resolution' = g.resolution
           /\ IF no_tables(tables)
              THEN /\ skipped' = skipped \cup {g.resolution}
                   /\ group' = group + 1
                   /\ UNCHANGED <<pc, tables_list, all_records, raw>>
              ELSE /\ tables_list' = tables
                   /\ all_records' = <<>>
                   /\ raw' = <<>>
                   /\ pc' = "read"
                   /\ UNCHANGED <<skipped, group>>
    /\ UNCHANGED <<env, exitStatus, USE_ARCPY, dirs, by_resolution, all_dfs,
                   origin, rowsRead, csvFiles, jsonFiles, csvOrigin, jsonlFiles,
                   jsonlRaw, summaryFiles, biomeColors, manifest,
                   manifestWritten, guidance, failed>>

\* One pass of `for i, table_name in enumerate(tables)`: the table is read
\* through the selected backend.  The read may raise; the arcpy cursor
\* raises when the table lacks one of the two fields it is asked for.
read_table ==
    /\ prog = "landcover" /\ pc = "read" /\ tables_list # <<>>
    /\ \/ /\ Raise
          /\ failed' = failed \cup {resolution}
          /\ UNCHANGED <<called, tables_list, all_records, raw, rowsRead>>
       \/ \E fields \in FieldChoices :
          \E rows \in TableRows(fields, H3Vals, MajorityVals, MaxRows - rowsRead) :
             /\ called' = called \cup {IF USE_ARCPY THEN "arcpy" ELSE "fiona"}
             /\ IF USE_ARCPY /\ ~({"h3_index", "MAJORITY"} \subseteq fields)
                THEN /\ Raise
                     /\ failed' = failed \cup {resolution}
                     /\ UNCHANGED <<tables_list, all_records, raw, rowsRead>>
                ELSE /\ all_records' = all_records \o export_table(fields, rows)
                     /\ raw' = raw \o
                           LET k == kept_rows(pairs(fields, rows))
                           IN  [i \in 1..Len(k) |-> k[i].MAJORITY]
                     /\ rowsRead' = rowsRead + Len(rows)
                     /\ tables_list' = Tail(tables_list)
                     /\ UNCHANGED <<pc, exitStatus, failed>>
    /\ UNCHANGED <<env, USE_ARCPY, dirs, by_resolution, resolution, all_dfs,
                   origin, group, csvFiles, jsonFiles, csvOrigin, jsonlFiles,
                   jsonlRaw, summaryFiles, biomeColors, manifest,
                   manifestWritten, guidance, skipped>>

\* The summary object export_resolution writes.
summary(res, records) ==
    [resolution |-> res, total_tiles |-> Len(records), biome_colors |-> biome_colors]

\* The end of export_resolution: the JSON-lines file, one line per record,
\* then the summary file; either write may raise.
write_resolution ==
    /\ prog = "landcover" /\ pc = "read" /\ tables_list = <<>>
    /\ \/ /\ Raise
          /\ failed' = failed \cup {resolution}
          /\ UNCHANGED <<jsonlFiles, jsonlRaw, summaryFiles, group>>
       \/ /\ jsonlFiles' = (resolution :> all_records) @@ jsonlFiles
          /\ jsonlRaw' = (resolution :> raw) @@ jsonlRaw
          /\ \/ /\ Raise
                /\ failed' = failed \cup {resolution}
                /\ UNCHANGED <<summaryFiles, group>>
             \/ /\ summaryFiles' =
                      (resolution :> summary(resolution, all_records)) @@ summaryFiles
                /\ group' = group + 1
                /\ pc' = "export"
                /\ UNCHANGED <<exitStatus, failed>>
    /\ UNCHANGED <<env, called, USE_ARCPY, dirs, by_resolution, resolution,
                   tables_list, all_records, all_dfs, origin, raw, rowsRead,
                   csvFiles, jsonFiles, csvOrigin, biomeColors, manifest,
                   manifestWritten, guidance, skipped>>

\* The tail of main: biome_colors.json, then the closing messages.
main_tail ==
    /\ prog = "landcover" /\ pc = "export" /\ group > Len(resolution_patterns)
    /\ \/ /\ Raise
          /\ UNCHANGED biomeColors
       \/ /\ biomeColors' = TRUE
          /\ pc' = "done"
          /\ exitStatus' = 0
    /\ UNCHANGED <<env, called, USE_ARCPY, dirs, by_resolution, resolution,
                   tables_list, all_records, all_dfs, origin, raw, rowsRead,
                   group, csvFiles, jsonFiles, csvOrigin, jsonlFiles, jsonlRaw,
                   summaryFiles, manifest, manifestWritten, guidance, skipped,
                   failed>>

(***************************************************************************)
(* The specification.                                                      *)
(***************************************************************************)
Next ==
    \/ main_setup
    \/ export_with_arcpy
    \/ arcpy_next_group
    \/ arcpy_read_table
    \/ arcpy_write_group
    \/ export_with_fiona
    \/ fiona_next_group
    \/ fiona_read_table
    \/ fiona_write_group
    \/ generate_manifest
    \/ main_failed
    \/ import_block
    \/ main_args
    \/ export_resolution
    \/ read_table
    \/ write_resolution
    \/ main_tail

Spec == Init /\ [][Next]_vars

(***************************************************************************)
(* Properties.                                                             *)
(***************************************************************************)
Ended == pc \in {"done", "crashed"}

\* The biome strings of the class table.
ClassBiomes ==
    {"unknown", "shrubland", "grassland", "agricultural", "urban", "desert",
     "polar", "freshwater", "wetland", "tundra", "forest", "woodland", "ocean"}

\* The codes of the class table.
ClassCodes ==
    {0, 20, 30, 40, 50, 60, 70, 80, 90, 100, 111, 112, 113, 114, 115, 116,
     121, 122, 123, 124, 125, 126, 200}

Unrecognized(m) == m.t = "int" /\ m.v \notin ClassCodes

NullOrZero(m) == m.t = "null" \/ (m.t = "int" /\ m.v = 0)

\* P holds of every land-cover record written to a JSON-lines file and of
\* every record accumulated for the group in hand, taken with the MAJORITY
\* value of its source row.
EveryEmitted(P(_, _)) ==
    /\ \A r \in DOMAIN jsonlFiles : \A i \in 1..Len(jsonlFiles[r]) :
          P(jsonlFiles[r][i], jsonlRaw[r][i])
    /\ prog = "landcover" =>
          \A i \in 1..Len(all_records) : P(all_records[i], raw[i])

\* C1 (as stated): every land-cover record has a non-negative code and a
\* class-table biome, and is exactly code 0 / "unknown" when the source
\* MAJORITY is null, zero or not in the class table.
C1_original ==
    LET P(rec, m) ==
            /\ rec.code >= 0
            /\ rec.biome \in ClassBiomes
            /\ (NullOrZero(m) \/ Unrecognized(m)) =>
                  (rec.code = 0 /\ rec.biome = "unknown")
    IN  EveryEmitted(P)

\* C1 (amended): every land-cover record has a class-table biome and the
\* integer value of the source MAJORITY as its code (0 for null or zero), so
\* the code is non-negative unless MAJORITY is negative; null or zero gives
\* exactly code 0 / "unknown"; an integer not in the class table gives biome
\* "unknown" and keeps its value as the code; a class-table code gives the
\* biome of its class.
C1_amended ==
    LET P(rec, m) ==
            /\ rec.biome \in ClassBiomes
            /\ NullOrZero(m) => (rec.code = 0 /\ rec.biome = "unknown")
            /\ m.t = "int" => rec.code = m.v
            /\ Unrecognized(m) => rec.biome = "unknown"
            /\ (m.t = "int" /\ m.v >= 0) => rec.code >= 0
            /\ (m.t = "int" /\ m.v \in 111..116) => rec.biome = "forest"
            /\ Truthy(rec.h3)
    IN  EveryEmitted(P)

\* A JSON-lines file holds a record of a row whose MAJORITY is not in the
\* class table and a record of a row whose MAJORITY is null.
C1_witness ==
    \E r \in DOMAIN jsonlFiles : \E i, j \in 1..Len(jsonlFiles[r]) :
        /\ jsonlRaw[r][i] = IntV(999) /\ jsonlFiles[r][i].code = 999
        /\ jsonlRaw[r][j] = None /\ jsonlFiles[r][j].biome = "unknown"

\* The resolution each table name of the model stands for, read off the
\* name (0: a table of no exported group), in the order of StatsTables and of
\* LandcoverTables.
StatsResolutionOf == <<5, 5, 5, 5, 3, 6, 0>>

LandcoverResolutionOf == <<3, 5, 5, 7, 0>>

\* The resolutions of the listed tables.
ListedResolutions(names, resolutionOf) ==
    {resolutionOf[i] : i \in {k \in 1..Len(names) : names[k] \in Range(gdb)}} \ {0}

\* The export_resolution calls whose pattern matches no listed table.
EmptyGroups ==
    {3, 5, 7} \ ListedResolutions(LandcoverTables, LandcoverResolutionOf)

LandcoverResolutions == {3, 5, 7}

\* C2 (as stated): a land-cover run that ends with status 0 has written, for
\* every resolution whose pattern matched no table, a summary file with
\* total_tiles = 0.
C2_original ==
    (prog = "landcover" /\ pc = "done" /\ exitStatus = 0) =>
        \A r \in EmptyGroups :
            r \in DOMAIN summaryFiles /\ summaryFiles[r].total_tiles = 0

\* C2 (amended): a resolution whose pattern matches no table gets no file,
\* neither JSON-lines nor summary; the run goes on to the remaining groups
\* (no error is raised for it) and, unless a read or write of another group
\* raises, ends with status 0 and the files of every other group written.
C2_amended ==
    prog = "landcover" =>
        LET empty == EmptyGroups
        IN  /\ \A r \in empty :
                  /\ r \notin DOMAIN summaryFiles
                  /\ r \notin DOMAIN jsonlFiles
                  /\ r \notin failed
            /\ skipped \subseteq empty
            /\ (pc = "done" /\ group > 0) =>
                  /\ exitStatus = 0
                  /\ skipped = empty
                  /\ \A r \in LandcoverResolutions \ empty :
                        r \in DOMAIN summaryFiles /\ r \in DOMAIN jsonlFiles

\* A run ended with status 0 after resolution 3 matched no table and the
\* files of resolution 5 were written.
C2_witness ==
    /\ prog = "landcover" /\ pc = "done" /\ exitStatus = 0
    /\ 3 \in skipped
    /\ 5 \in DOMAIN summaryFiles

\* The header line of the declared columns.
DeclaredHeader ==
    <<StrV("h3_index"), StrV("zone_code"), StrV("count"), StrV("area"),
      StrV("majority"), StrV("source_part")>>

\* C3 (as stated): every CSV file of the statistics exporter has exactly the
\* declared header, in the declared order, whichever backend wrote it and
\* whichever columns the source tables had.
C3_claim ==
    \A r \in DOMAIN csvFiles : csvFiles[r][1] = DeclaredHeader

\* C4 (as stated): every record written to an output file of either exporter
\* has a non-empty grid-cell identifier.
C4_claim ==
    /\ \A r \in DOMAIN jsonFiles : \A i \in 1..Len(jsonFiles[r]) :
          /\ "h3_index" \in DOMAIN jsonFiles[r][i]
          /\ Truthy(jsonFiles[r][i].h3_index)
    /\ \A r \in DOMAIN jsonlFiles : \A i \in 1..Len(jsonlFiles[r]) :
          Truthy(jsonlFiles[r][i].h3)

\* C5: for every resolution listed in the manifest, record_count is the
\* number of lines of that resolution's CSV file minus one, which is the
\* number of records written to that CSV file (one per source row read for
\* the group and one per record of the JSON file); the resolutions listed are
\* those whose CSV file exists.
C5_manifest_counts ==
    manifestWritten =>
        /\ DOMAIN manifest = DOMAIN csvFiles
        /\ \A r \in DOMAIN manifest :
              /\ manifest[r].record_count = Len(csvFiles[r]) - 1
              /\ manifest[r].record_count = Len(csvOrigin[r])
              /\ manifest[r].record_count = Len(jsonFiles[r])

\* The manifest is written and lists a resolution of two records.
C5_witness ==
    /\ manifestWritten
    /\ \E r \in DOMAIN manifest : manifest[r].record_count = 2

\* The resolution groups of the run that have matching tables.
RunGroups ==
    IF prog = "stats" THEN ListedResolutions(StatsTables, StatsResolutionOf)
    ELSE ListedResolutions(LandcoverTables, LandcoverResolutionOf)

\* The output files of group r are written.
Exported(r) ==
    IF prog = "stats"
    THEN r \in DOMAIN csvFiles /\ r \in DOMAIN jsonFiles
    ELSE r \in DOMAIN jsonlFiles /\ r \in DOMAIN summaryFiles

\* Some output file of group r is written.
Touched(r) ==
    IF prog = "stats"
    THEN r \in DOMAIN csvFiles \/ r \in DOMAIN jsonFiles
    ELSE r \in DOMAIN jsonlFiles \/ r \in DOMAIN summaryFiles

\* C6 (as stated): when the export of a group has failed and the run has
\* ended, every other group with matching tables has its output files.
C6_original ==
    (Ended /\ failed # {}) =>
        \A r \in RunGroups \ failed : Exported(r)

\* C6 (amended): a read or write error in the export of a group halts the
\* run with exit status 1: no group is exported after it (the groups run by
\* ascending resolution), the groups before it keep their files, and the
\* statistics exporter writes no manifest.
C6_amended ==
    failed # {} =>
        /\ pc = "crashed" /\ exitStatus = 1
        /\ ~manifestWritten /\ ~biomeColors
        /\ LET groups == RunGroups
           IN  \E f \in groups :
                  /\ failed = {f}
                  /\ \A r \in groups :
                        /\ r < f => Exported(r)
                        /\ r > f => ~Touched(r)

\* The statistics exporter has halted on an error in resolution 5 with the
\* group of another resolution still to export.
C6_witness ==
    /\ prog = "stats" /\ pc = "crashed"
    /\ failed = {5}
    /\ by_resolution # <<>>
    /\ 5 \in dirs

NoOutput ==
    /\ csvFiles = Empty /\ jsonFiles = Empty
    /\ jsonlFiles = Empty /\ summaryFiles = Empty
    /\ ~biomeColors /\ ~manifestWritten

\* C7: when neither backend is importable the land-cover exporter ends with
\* exit status 1, the statistics exporter prints the failure guidance and
\* ends with exit status 0, no error is raised, and no data file and no
\* manifest is ever written.
C7_missing_backend ==
    (~arcpyAvail /\ ~fionaAvail) =>
        /\ NoOutput
        /\ called = {}
        /\ pc # "crashed"
        /\ pc \in {"start", "arcpy", "fiona", "failed", "done"}
        /\ pc = "done" =>
              IF prog = "landcover" THEN exitStatus = 1
              ELSE exitStatus = 0 /\ guidance

\* The statistics exporter has ended with neither backend importable.
C7_witness ==
    /\ ~arcpyAvail /\ ~fionaAvail
    /\ prog = "stats" /\ pc = "done" /\ guidance

\* C8 (as stated): within the output of a resolution group, two records
\* carry the same source_part only if they were read from the same table.
C8_claim ==
    \A r \in DOMAIN jsonFiles : \A i, j \in 1..Len(jsonFiles[r]) :
        jsonFiles[r][i].source_part = jsonFiles[r][j].source_part =>
            csvOrigin[r][i] = csvOrigin[r][j]

\* C9 (as stated): the fiona backend is called only when arcpy is not
\* importable, and no run calls operations of both backends.
C9_claim ==
    /\ "fiona" \in called => ~arcpyAvail
    /\ called # {"arcpy", "fiona"}

\* C10 (as stated): the statistics exporter reaches the write step of every
\* resolution parsed from a matching table name with the directory resN in
\* place, and a manifest written at the end lists every such resolution.
C10_claim ==
    prog = "stats" =>
        /\ (pc \in {"arcpy_read", "fiona_read"} /\ tables_list = <<>>) =>
              resolution \in dirs
        /\ manifestWritten => RunGroups \subseteq DOMAIN manifest

====
